---- MODULE Spec2Model ----
(***************************************************************************)
(* Model of the medicine recommendation service (src/api.py).              *)
(*                                                                         *)
(* Numbers.  Every floating point quantity is an exact multiple of 0.5 and *)
(* is kept as an integer count of halves: a similarity of 2 is 1.0, an     *)
(* alpha of 1 is 0.5.  Satisfaction scores are small integers, so that the *)
(* min-max denominator is 1 or 2.  On such values IEEE arithmetic is exact *)
(* and the integer arithmetic below is the arithmetic of the code.  A      *)
(* quotient is kept as the pair <<numerator, denominator>>; the quotient   *)
(* 0/0 of line 85 is the pair <<0, 0>>, the NaN of the code.               *)
(*                                                                         *)
(* Positions.  Index i of a sequence is pandas/numpy position i-1.         *)
(***************************************************************************)
EXTENDS Integers, Sequences, FiniteSets

\* ---------------------------------------------------------------- bounds
MaxRecords == 12
MaxTopN == 2

\* The literal of the slice [1:top_n+10] (api.py line 75).
SliceMargin == 10

\* ------------------------------------------------------- input universes
\* Columns of a csv file are periodic: row i holds entry ((i-1) % 3)+1.
NameColumn == <<"b", "A", "a">>
MfwColumn == <<0, 1, 2>>
SatColumns == { <<1, 1, 1>>, <<0, 1, 2>>, <<2, 0, 2>> }
\* Feature classes of the rows the similarity matrix was computed from.
ClassColumns == { <<0, 0, 0>>, <<0, 1, 2>>, <<1, 0, 0>> }

QueryNames == {"a", "A", "B", "c"}
\* alpha, satisfaction_weight, side_effect_weight of a request, in halves.
WeightSettings ==
  { [alpha |-> 2, satisfaction_weight |-> 0, side_effect_weight |-> 0],
    [alpha |-> 1, satisfaction_weight |-> 1, side_effect_weight |-> 0],
    [alpha |-> 1, satisfaction_weight |-> 1, side_effect_weight |-> 2],
    [alpha |-> 2, satisfaction_weight |-> 1, side_effect_weight |-> 2] }
ManufacturerWeights == {0, 1}

Min(a, b) == IF a <= b THEN a ELSE b
Abs(a) == IF a < 0 THEN -a ELSE a
Col(c, i) == c[((i - 1) % Len(c)) + 1]

\* data/medicines_cleaned_small.csv with n rows.
CsvData(n, sats) ==
  [i \in 1..n |-> [name |-> Col(NameColumn, i), comp |-> i,
                   sat |-> Col(sats, i), mfw |-> Col(MfwColumn, i)]]

\* models/cosine_sim_small.pkl: an m x m cosine similarity matrix; equal
\* feature classes have similarity 1.0, so its diagonal is a row maximum.
PklData(m, classes) ==
  [i \in 1..m |-> [j \in 1..m |-> 2 - Abs(Col(classes, i) - Col(classes, j))]]

MatrixSizes(n) == {m \in {n - 1, n, n + 1} : m >= 0}

AbsentFile == [exists |-> FALSE, data |-> <<>>]
File(d) == [exists |-> TRUE, data |-> d]

CsvFiles ==
  { File(CsvData(n, sc)) : n \in 0..MaxRecords, sc \in SatColumns }

PklFilesFor(n) ==
  { File(PklData(m, cc)) : m \in MatrixSizes(n), cc \in ClassColumns }

\* --------------------------------------------------------------- state
VARIABLES
  csv_file,     \* CSV_PATH on disk
  pkl_file,     \* MODEL_PATH on disk
  pc,           \* position of the module's top-level code
  df,           \* global df
  cosine_sim,   \* global cosine_sim
  request,      \* the MedicineRequest of the last call
  med_indices,  \* local med_indices of the last call
  response      \* what the last call returned or raised

vars == <<csv_file, pkl_file, pc, df, cosine_sim, request, med_indices, response>>

\* ------------------------------------------------------ pure functions
\* str.lower() on the names in use.
Lower(s) == CASE s = "A" -> "a" [] s = "B" -> "b" [] OTHER -> s

\* Variant of MatchIndex that lowers the stored names only.
MatchIndexQueryAsTyped(frame, medicine_name) ==
  { i \in 1..Len(frame) : Lower(frame[i].name) = medicine_name }

\* Line 69: positions whose lowered name equals the lowered query.
MatchIndex(frame, medicine_name) ==
  { i \in 1..Len(frame) : Lower(frame[i].name) = Lower(medicine_name) }

FirstOf(S) == CHOOSE i \in S : \A j \in S : i <= j

\* A list built by a comprehension, held as a value (lines 74, 78, 82).
AsList(s) == SubSeq(s, 1, Len(s))

\* Line 75, sorted(..., key=similarity, reverse=True): Python's sort is
\* stable and reverse=True keeps equal keys in their original order.
SortedBySimilarity(row) ==
  LET L == Len(row)
      rank == AsList([i \in 1..L |-> 1 + Cardinality({ j \in 1..L :
                       row[j] > row[i] \/ (row[j] = row[i] /\ j < i) })])
  IN AsList([p \in 1..L |-> CHOOSE i \in 1..L : rank[i] = p])

\* Variant of CandidateSlice keeping top_n+10 rows after the first.
CandidateSliceWide(sorted, top_n) ==
  SubSeq(sorted, 2, Min(Len(sorted), top_n + SliceMargin + 1))

\* Lines 74-78: the slice [1:top_n+10] of the sorted row, as positions.
CandidateSlice(sorted, top_n) ==
  SubSeq(sorted, 2, Min(Len(sorted), top_n + SliceMargin))

MedIndices(row, top_n) == CandidateSlice(SortedBySimilarity(row), top_n)

SeqMin(s) == CHOOSE v \in {s[i] : i \in 1..Len(s)} : \A j \in 1..Len(s) : v <= s[j]
SeqMax(s) == CHOOSE v \in {s[i] : i \in 1..Len(s)} : \A j \in 1..Len(s) : v >= s[j]

\* Lines 85-86: min-max normalisation over the candidates only.
NormalizeSatisfaction(sats) ==
  IF Len(sats) = 0 THEN <<>>
  ELSE LET mn == SeqMin(sats)
           mx == SeqMax(sats)
       IN AsList([i \in 1..Len(sats) |-> <<sats[i] - mn, mx - mn>>])

IsNaN(q) == q[2] = 0

\* Variant of FinalScore whose penalty uses the request's manufacturer_weight.
FinalScoreRequestWeight(alpha, satisfaction_weight, side_effect_weight, manufacturer_weight, similarity, norm, mfw) ==
  << alpha * similarity * norm[2]
       + (2 - alpha) * satisfaction_weight * norm[1]
       - manufacturer_weight * mfw * norm[2],
     4 * norm[2] >>

\* Lines 89-93.  With similarity, weights and Manufacturer_Weight in halves
\* and normalised satisfaction num/den, the score is the quotient below.
FinalScore(alpha, satisfaction_weight, side_effect_weight, manufacturer_weight, similarity, norm, mfw) ==
  << alpha * similarity * norm[2]
       + (2 - alpha) * satisfaction_weight * norm[1]
       - side_effect_weight * mfw * norm[2],
     4 * norm[2] >>

\* Line 96, sort_values(ascending=False): NaN scores go last in their
\* original order; equal scores keep their original order (the argsort of
\* the reversed column is stable on frames this small).  All scores of one
\* call share one denominator.
SortByFinalScore(scores) ==
  LET L == Len(scores)
      Before(j, i) ==
        IF IsNaN(scores[i]) \/ IsNaN(scores[j]) THEN
             (~IsNaN(scores[j]) /\ IsNaN(scores[i]))
             \/ (IsNaN(scores[j]) = IsNaN(scores[i]) /\ j < i)
        ELSE scores[j][1] > scores[i][1]
             \/ (scores[j][1] = scores[i][1] /\ j < i)
      rank == AsList([i \in 1..L |-> 1 + Cardinality({ j \in 1..L : Before(j, i) })])
  IN AsList([p \in 1..L |-> CHOOSE i \in 1..L : rank[i] = p])

\* Variant of HeadRows keeping one row more.
HeadRowsOneMore(s, top_n) == SubSeq(s, 1, Min(Len(s), top_n + 1))

\* Line 96, .head(top_n).
HeadRows(s, top_n) == SubSeq(s, 1, Min(Len(s), top_n))

\* Variant of DfAfterCall where rec_df shares its rows with df, so that the
\* assignment of lines 85-86 reaches df.
DfAfterCallShared(frame, indices, norms) ==
  [i \in 1..Len(frame) |->
     IF \E k \in 1..Len(indices) : indices[k] = i
     THEN [frame[i] EXCEPT !.sat = norms[CHOOSE k \in 1..Len(indices) : indices[k] = i][1]]
     ELSE frame[i]]

\* Line 81: rec_df is a copy, so lines 82-93 write to the copy only.
DfAfterCall(frame, indices, norms) == frame

Ok(body) == [status |-> 200, body |-> body]
NotFound == [status |-> 404, body |-> <<>>]
IndexError == [status |-> 500, body |-> <<>>]
NoResponse == [status |-> 0, body |-> <<>>]

\* Satisfaction Score column of rec_df after lines 85-86.
RecNorms(frame, indices) ==
  NormalizeSatisfaction(AsList([k \in 1..Len(indices) |-> frame[indices[k]].sat]))

\* Final Score column of rec_df (lines 82, 89-93).
RecScores(frame, row, indices, satisfaction_weight, side_effect_weight, manufacturer_weight, alpha) ==
  LET norms == RecNorms(frame, indices)
  IN AsList([k \in 1..Len(indices) |->
        FinalScore(alpha, satisfaction_weight, side_effect_weight,
                   manufacturer_weight, row[indices[k]], norms[k],
                   frame[indices[k]].mfw)])

\* Rows of rec_df (1..Len(indices)) in the order of the result (line 96).
RankedPositions(frame, row, indices, satisfaction_weight, side_effect_weight, manufacturer_weight, top_n, alpha) ==
  HeadRows(SortByFinalScore(RecScores(frame, row, indices, satisfaction_weight,
             side_effect_weight, manufacturer_weight, alpha)), top_n)

\* Line 98: the columns that stay, as a list of dicts.
Project(frame, indices, norms, ranked) ==
  AsList([r \in 1..Len(ranked) |->
     [name |-> frame[indices[ranked[r]]].name,
      comp |-> frame[indices[ranked[r]]].comp,
      sat |-> norms[ranked[r]]]])

\* Lines 65-98.  cosine_sim[idx] and df.iloc raise IndexError out of range.
recommend_medicines(medicine_name, frame, matrix, satisfaction_weight, side_effect_weight, manufacturer_weight, top_n, alpha) ==
  LET matches == MatchIndex(frame, medicine_name)
  IN IF matches = {} THEN NotFound
     ELSE LET idx == FirstOf(matches)
          IN IF idx > Len(matrix) THEN IndexError
             ELSE LET indices == MedIndices(matrix[idx], top_n)
                  IN IF \E k \in 1..Len(indices) : indices[k] > Len(frame)
                     THEN IndexError
                     ELSE Ok(Project(frame, indices, RecNorms(frame, indices),
                               RankedPositions(frame, matrix[idx], indices,
                                 satisfaction_weight, side_effect_weight,
                                 manufacturer_weight, top_n, alpha)))

\* The candidate list of a call, <<>> when the call ends before line 78.
CallIndices(medicine_name, frame, matrix, top_n) ==
  LET matches == MatchIndex(frame, medicine_name)
  IN IF matches = {} \/ FirstOf(matches) > Len(matrix) THEN <<>>
     ELSE MedIndices(matrix[FirstOf(matches)], top_n)

\* ------------------------------------------------------------- actions
NoRequest ==
  [medicine_name |-> "", top_n |-> 1, alpha |-> 2, satisfaction_weight |-> 0,
   side_effect_weight |-> 0, manufacturer_weight |-> 0]

\* MedicineRequest (lines 51-57).
MedicineRequest ==
  { [medicine_name |-> q, top_n |-> t, alpha |-> w.alpha,
     satisfaction_weight |-> w.satisfaction_weight,
     side_effect_weight |-> w.side_effect_weight,
     manufacturer_weight |-> mw] :
      q \in QueryNames, t \in 1..MaxTopN, w \in WeightSettings,
      mw \in ManufacturerWeights }

Init ==
  /\ csv_file \in CsvFiles \cup {AbsentFile}
  /\ pkl_file \in PklFilesFor(Len(csv_file.data)) \cup {AbsentFile}
  /\ pc = "download"
  /\ df = <<>>
  /\ cosine_sim = <<>>
  /\ request = NoRequest
  /\ med_indices = <<>>
  /\ response = NoResponse

\* Lines 16-26: fetch the matrix when it is not on disk; the fetch may
\* leave no file behind.
download_model ==
  /\ pc = "download"
  /\ IF pkl_file.exists
     THEN UNCHANGED pkl_file
     ELSE pkl_file' \in PklFilesFor(Len(csv_file.data)) \cup {AbsentFile}
  /\ pc' = "load"
  /\ UNCHANGED <<csv_file, df, cosine_sim, request, med_indices, response>>

\* Lines 39-48: load both artifacts; a missing file ends the process.
load_artifacts ==
  /\ pc = "load"
  /\ IF csv_file.exists /\ pkl_file.exists
     THEN /\ df' = csv_file.data
          /\ cosine_sim' = pkl_file.data
          /\ pc' = "serving"
     ELSE /\ pc' = "failed"
          /\ UNCHANGED <<df, cosine_sim>>
  /\ UNCHANGED <<csv_file, pkl_file, request, med_indices, response>>

\* Lines 51-57, 101-102: a POST /recommend body is parsed into a
\* MedicineRequest and handed to the handler.
post_recommend ==
  /\ pc = "serving"
  /\ request' \in MedicineRequest
  /\ med_indices' = <<>>
  /\ response' = NoResponse
  /\ pc' = "handling"
  /\ UNCHANGED <<csv_file, pkl_file, df, cosine_sim>>

\* Lines 102-112 with lines 65-98: the handler runs to its end without
\* yielding.
get_recommendations ==
  /\ pc = "handling"
  /\ LET indices == CallIndices(request.medicine_name, df, cosine_sim, request.top_n)
         res == recommend_medicines(request.medicine_name, df, cosine_sim,
                  request.satisfaction_weight, request.side_effect_weight,
                  request.manufacturer_weight, request.top_n, request.alpha)
     IN /\ med_indices' = indices
        /\ response' = res
        /\ df' = IF res.status = 200
                 THEN DfAfterCall(df, indices, RecNorms(df, indices))
                 ELSE df
  /\ pc' = "serving"
  /\ UNCHANGED <<csv_file, pkl_file, cosine_sim, request>>

Next == download_model \/ load_artifacts \/ post_recommend \/ get_recommendations

Spec == Init /\ [][Next]_vars

\* ------------------------------------------------------------ properties
\* A call has run to its end.
Served == pc = "serving" /\ response.status # 0
\* The service answers requests.
Serving == pc \in {"serving", "handling"}
Aligned == Len(cosine_sim) = Len(df)
Found == \E i \in 1..Len(df) : Lower(df[i].name) = Lower(request.medicine_name)
\* The position the lookup must yield: the first match in storage order.
QueryIndex ==
  CHOOSE i \in 1..Len(df) :
    /\ Lower(df[i].name) = Lower(request.medicine_name)
    /\ \A j \in 1..(i - 1) : Lower(df[j].name) # Lower(request.medicine_name)
Candidates == {med_indices[k] : k \in 1..Len(med_indices)}

\* C1: the candidate list of a call never holds the query's own index.
C1_QueryExcluded ==
  (Served /\ Found /\ Aligned) => QueryIndex \notin Candidates

\* C3: the call ends NotFound, with no result and no candidate, exactly when
\* no name equals the query name case-insensitively; otherwise it works on
\* the first matching record, and query names differing only in letter case
\* get the same answer.
C3_Lookup ==
  Served =>
    /\ (response.status = 404) <=> ~Found
    /\ ~Found => (response.body = <<>> /\ med_indices = <<>>)
    /\ (Found /\ QueryIndex <= Len(cosine_sim)) =>
          med_indices = MedIndices(cosine_sim[QueryIndex], request.top_n)
    /\ \A q \in {"a", "A", "b", "B", "c"} :
          Lower(q) = Lower(request.medicine_name) =>
            recommend_medicines(q, df, cosine_sim, request.satisfaction_weight,
              request.side_effect_weight, request.manufacturer_weight,
              request.top_n, request.alpha) = response

\* A query found only through case folding, with a second match behind it.
C3_Witness ==
  /\ Served /\ Aligned /\ response.status = 200 /\ Len(response.body) >= 1
  /\ df[QueryIndex].name # request.medicine_name
  /\ \E j \in (QueryIndex + 1)..Len(df) :
       Lower(df[j].name) = Lower(request.medicine_name)

\* C7: whenever requests are answered, the matrix has as many rows as there
\* are records.
C7_AlignedWhenServing == Serving => Aligned

\* Columns of rec_df of the last call.
QueryRow == cosine_sim[QueryIndex]
Norms == RecNorms(df, med_indices)
Scores == RecScores(df, QueryRow, med_indices, request.satisfaction_weight, request.side_effect_weight, request.manufacturer_weight, request.alpha)
AllSatisfactionEqual ==
  \A k, l \in 1..Len(med_indices) : df[med_indices[k]].sat = df[med_indices[l]].sat
Answered == Served /\ response.status = 200

\* C2: when all candidates share one satisfaction score every normalised
\* value is 0.0 (not NaN), otherwise every normalised value is in [0,1]; in
\* the degenerate case the score is alpha*similarity minus the penalty.
C2_Normalized ==
  (Answered /\ Aligned) =>
    LET norms == Norms
        scores == Scores
        row == QueryRow
        equal == AllSatisfactionEqual
    IN \A k \in 1..Len(med_indices) :
         /\ ~IsNaN(norms[k])
         /\ 0 <= norms[k][1] /\ norms[k][1] <= norms[k][2]
         /\ equal =>
              /\ norms[k][1] = 0
              /\ ~IsNaN(scores[k])
              /\ 4 * scores[k][1] =
                   scores[k][2] * (request.alpha * row[med_indices[k]]
                                   - request.side_effect_weight * df[med_indices[k]].mfw)

\* C4: an answered call returns exactly min(top_n, candidates) rows, never
\* more than top_n, and all other records when top_n exceeds their number.
C4_ResultLength ==
  Answered =>
    /\ Len(response.body) = Min(request.top_n, Len(med_indices))
    /\ Len(response.body) <= request.top_n
    /\ Aligned => Len(response.body) = Min(request.top_n, Len(df) - 1)

\* More rows asked for than there are candidates.
C4_Witness ==
  /\ Answered /\ Aligned
  /\ request.top_n > Len(med_indices)
  /\ Len(med_indices) >= 1
  /\ Len(response.body) = Len(med_indices)

ResultIndex(r) == response.body[r].comp

\* C6: equal similarities are selected in ascending index order, and equal
\* final scores are ranked in ascending index order.
C6_TieBreak ==
  (Answered /\ Aligned) =>
    LET scores == Scores
        row == QueryRow
        ScoreOf(i) == scores[CHOOSE k \in 1..Len(med_indices) : med_indices[k] = i]
    IN /\ \A k, l \in 1..Len(med_indices) :
            (k < l /\ row[med_indices[k]] = row[med_indices[l]])
              => med_indices[k] < med_indices[l]
       /\ \A r, t \in 1..Len(response.body) :
            (r < t /\ ~IsNaN(ScoreOf(ResultIndex(r)))
                   /\ ScoreOf(ResultIndex(r)) = ScoreOf(ResultIndex(t)))
              => ResultIndex(r) < ResultIndex(t)

\* C8: a call leaves df and cosine_sim as they were loaded, and every answer
\* is the answer of a lone call on the loaded snapshot.
C8_SnapshotUnchanged ==
  /\ Serving => (df = csv_file.data /\ cosine_sim = pkl_file.data)
  /\ Served =>
       response = recommend_medicines(request.medicine_name, csv_file.data,
                    pkl_file.data, request.satisfaction_weight,
                    request.side_effect_weight, request.manufacturer_weight,
                    request.top_n, request.alpha)

\* An answer whose Satisfaction Score column was rewritten by the call.
C8_Witness ==
  /\ Answered /\ Aligned
  /\ \E r \in 1..Len(response.body) :
       /\ ~IsNaN(response.body[r].sat)
       /\ response.body[r].sat[1] # df[ResultIndex(r)].sat

\* C9 as claimed: the candidate list has min(top_n + 10, records - 1) rows.
C9_CandidateCountClaimed ==
  (Served /\ Found /\ Aligned) =>
    Len(med_indices) = Min(request.top_n + SliceMargin, Len(df) - 1)

\* C9: the candidate list has min(top_n + 9, L - 1) rows, L the length of the
\* query's similarity row: one most similar entry of the row is dropped and
\* the candidates are the most similar of the others, each once, in
\* descending order of similarity.
C9_CandidateCount ==
  (Served /\ Found /\ QueryIndex <= Len(cosine_sim)) =>
    LET row == QueryRow
        rest == (1..Len(row)) \ Candidates
    IN /\ Len(med_indices) = Min(request.top_n + SliceMargin - 1, Len(row) - 1)
       /\ Cardinality(Candidates) = Len(med_indices)
       /\ \A k \in 1..(Len(med_indices) - 1) :
            row[med_indices[k]] >= row[med_indices[k + 1]]
       /\ \E top \in rest :
            /\ \A j \in 1..Len(row) : row[top] >= row[j]
            /\ \A j \in rest \ {top} : \A c \in Candidates : row[j] <= row[c]

\* The slice cuts the sorted row short.
C9_Witness ==
  /\ Answered /\ Aligned
  /\ Len(med_indices) = request.top_n + SliceMargin - 1
  /\ Len(med_indices) < Len(df) - 1

\* C10: with alpha = 1 and both other weights 0 every final score is the
\* similarity, and the answer is in descending similarity order.
C10_SimilarityOnly ==
  (Answered /\ Aligned /\ request.alpha = 2 /\ request.satisfaction_weight = 0
     /\ request.side_effect_weight = 0) =>
    LET scores == Scores
        row == QueryRow
    IN /\ \A k \in 1..Len(med_indices) :
            ~IsNaN(scores[k]) /\ 2 * scores[k][1] = row[med_indices[k]] * scores[k][2]
       /\ \A r \in 1..(Len(response.body) - 1) :
            row[ResultIndex(r)] >= row[ResultIndex(r + 1)]
====
